---- MODULE Spec2Model ----
(***************************************************************************)
(* The dictionary back end of open_read: src-tauri/src/db.rs (init_db,     *)
(* search_dictionary, DbState) and its start-up in src-tauri/src/lib.rs    *)
(* (run).  The dictionary is an SQLite FTS5 table with the default         *)
(* unicode61 tokenizer; search_dictionary hands the caller's word to       *)
(* FTS5 as the right-hand side of "word MATCH ?", so the word is read as   *)
(* an FTS5 query expression.  Strings are sequences of one-character       *)
(* strings.  The query language is modelled for words over letters, the    *)
(* space, "-" and "*" (QueryAlphabet); every word the model searches for   *)
(* is over that alphabet.                                                  *)
(***************************************************************************)
EXTENDS Integers, Sequences, FiniteSets, TLC

VARIABLES setupPc, conn, failedAt, managed, holders, pc, word, result, seen

vars == <<setupPc, conn, failedAt, managed, holders, pc, word, result, seen>>

\* Number of concurrent callers of search_dictionary (webview invocations).
NumThreads == 2

Threads == 1 .. NumThreads

(***************************************************************************)
(* The data set of init_db, in insertion order.                            *)
(***************************************************************************)
entries ==
    << [word |-> <<"B", "a", "n", "k">>,
        definition |-> "An institution for receiving, lending, exchanging, and safeguarding money."],
       [word |-> <<"B", "a", "n", "k">>,
        definition |-> "The land beside a body of water, such as a river."],
       [word |-> <<"T", "r", "a", "c", "e", "-", "b", "a", "s", "e", "d">>,
        definition |-> "A method of optimization that uses execution traces to identify hot code paths."],
       [word |-> <<"J", "u", "s", "t", "-", "i", "n", "-", "T", "i", "m", "e">>,
        definition |-> "A method of executing computer code that involves compilation during execution rather than prior to execution."],
       [word |-> <<"S", "p", "e", "c", "i", "a", "l", "i", "z", "a", "t", "i", "o", "n">>,
        definition |-> "The process of tailoring code for specific types or values to improve performance."],
       [word |-> <<"D", "y", "n", "a", "m", "i", "c">>,
        definition |-> "Characterized by constant change, activity, or progress; in computing, referring to processes that occur during execution."],
       [word |-> <<"C", "o", "m", "p", "i", "l", "e", "r">>,
        definition |-> "A program that translates source code into machine code or bytecode."],
       [word |-> <<"I", "n", "t", "e", "r", "p", "r", "e", "t", "e", "r">>,
        definition |-> "A program that executes instructions directly without prior compilation."],
       [word |-> <<"H", "e", "u", "r", "i", "s", "t", "i", "c">>,
        definition |-> "A technique designed for solving a problem more quickly when classic methods are too slow."],
       [word |-> <<"D", "e", "t", "e", "r", "m", "i", "n", "i", "s", "t", "i", "c">>,
        definition |-> "A process that, given a particular input, will always produce the same output."],
       [word |-> <<"O", "p", "t", "i", "m", "i", "z", "a", "t", "i", "o", "n">>,
        definition |-> "The action of making the best or most effective use of a resource."],
       [word |-> <<"V", "i", "r", "t", "u", "a", "l", " ", "M", "a", "c", "h", "i", "n", "e">>,
        definition |-> "An emulation of a computer system providing the functionality of a physical computer."],
       [word |-> <<"B", "y", "t", "e", "c", "o", "d", "e">>,
        definition |-> "A form of instruction set designed for efficient execution by a software interpreter."],
       [word |-> <<"T", "y", "p", "e">>,
        definition |-> "A category for a piece of data that determines what operations can be performed on it."],
       [word |-> <<"P", "o", "i", "n", "t", "e", "r">>,
        definition |-> "A variable that stores the memory address of another value."],
       [word |-> <<"A", "l", "l", "o", "c", "a", "t", "i", "o", "n">>,
        definition |-> "The process of reserving a block of memory for data."],
       [word |-> <<"G", "a", "r", "b", "a", "g", "e", " ", "C", "o", "l", "l", "e", "c", "t", "i", "o", "n">>,
        definition |-> "Automatic memory management that reclaims space used by objects no longer in use."],
       [word |-> <<"L", "a", "t", "e", "n", "c", "y">>,
        definition |-> "The time interval between a cause and its effect in a system."],
       [word |-> <<"T", "h", "r", "o", "u", "g", "h", "p", "u", "t">>,
        definition |-> "The amount of data or processes handled within a specific period."] >>

NumEntries == Len(entries)

(***************************************************************************)
(* Characters.                                                             *)
(***************************************************************************)
Upper == <<"A", "B", "C", "D", "E", "F", "G", "H", "I", "J", "K", "L", "M", "N", "O", "P", "Q", "R", "S", "T", "U", "V", "W", "X", "Y", "Z">>

Lower == <<"a", "b", "c", "d", "e", "f", "g", "h", "i", "j", "k", "l", "m", "n", "o", "p", "q", "r", "s", "t", "u", "v", "w", "x", "y", "z">>

QueryAlphabet == {Upper[i] : i \in 1 .. Len(Upper)} \cup {Lower[i] : i \in 1 .. Len(Lower)}
                 \cup {" ", "-", "*"}

IsUpper(c) == \E i \in 1 .. Len(Upper) : Upper[i] = c

IsLower(c) == \E i \in 1 .. Len(Lower) : Lower[i] = c

\* unicode61 case folding of one character.
FoldChar(c) == IF IsUpper(c) THEN Lower[CHOOSE i \in 1 .. Len(Upper) : Upper[i] = c] ELSE c

Fold(s) == [i \in 1 .. Len(s) |-> FoldChar(s[i])]

\* unicode61: a token character is a letter (digits are outside the alphabet);
\* every other character separates tokens.
IsTokenChar(c) == IsUpper(c) \/ IsLower(c)

\* fts5 sqlite3Fts5IsBareword over the alphabet: letters.
IsBareword(c) == IsUpper(c) \/ IsLower(c)

IsWhitespace(c) == c = " "

\* The end (exclusive) of the run of characters satisfying the class that starts at i.
TokenRunEnd(s, i) ==
    CHOOSE j \in i .. Len(s) + 1 :
        /\ \A k \in i .. j - 1 : IsTokenChar(s[k])
        /\ (j = Len(s) + 1 \/ ~IsTokenChar(s[j]))

RECURSIVE TokenizeFrom(_, _)
TokenizeFrom(s, i) ==
    IF i > Len(s) THEN <<>>
    ELSE IF ~IsTokenChar(s[i]) THEN TokenizeFrom(s, i + 1)
    ELSE LET j == TokenRunEnd(s, i)
         IN  <<Fold(SubSeq(s, i, j - 1))>> \o TokenizeFrom(s, j)

\* The unicode61 tokens of a text: maximal runs of token characters, case folded.
Tokenize(s) == TokenizeFrom(s, 1)

(***************************************************************************)
(* The words searched for.                                                 *)
(***************************************************************************)
\* The terms of the data set, lowercased, trimmed, whitespace collapsed.
TermWords ==
    {
      <<"b", "a", "n", "k">>,   \* 'bank'
      <<"t", "r", "a", "c", "e", "-", "b", "a", "s", "e", "d">>,   \* 'trace-based'
      <<"j", "u", "s", "t", "-", "i", "n", "-", "t", "i", "m", "e">>,   \* 'just-in-time'
      <<"s", "p", "e", "c", "i", "a", "l", "i", "z", "a", "t", "i", "o", "n">>,   \* 'specialization'
      <<"d", "y", "n", "a", "m", "i", "c">>,   \* 'dynamic'
      <<"c", "o", "m", "p", "i", "l", "e", "r">>,   \* 'compiler'
      <<"i", "n", "t", "e", "r", "p", "r", "e", "t", "e", "r">>,   \* 'interpreter'
      <<"h", "e", "u", "r", "i", "s", "t", "i", "c">>,   \* 'heuristic'
      <<"d", "e", "t", "e", "r", "m", "i", "n", "i", "s", "t", "i", "c">>,   \* 'deterministic'
      <<"o", "p", "t", "i", "m", "i", "z", "a", "t", "i", "o", "n">>,   \* 'optimization'
      <<"v", "i", "r", "t", "u", "a", "l", " ", "m", "a", "c", "h", "i", "n", "e">>,   \* 'virtual machine'
      <<"b", "y", "t", "e", "c", "o", "d", "e">>,   \* 'bytecode'
      <<"t", "y", "p", "e">>,   \* 'type'
      <<"p", "o", "i", "n", "t", "e", "r">>,   \* 'pointer'
      <<"a", "l", "l", "o", "c", "a", "t", "i", "o", "n">>,   \* 'allocation'
      <<"g", "a", "r", "b", "a", "g", "e", " ", "c", "o", "l", "l", "e", "c", "t", "i", "o", "n">>,   \* 'garbage collection'
      <<"l", "a", "t", "e", "n", "c", "y">>,   \* 'latency'
      <<"t", "h", "r", "o", "u", "g", "h", "p", "u", "t">>   \* 'throughput'
    }

OtherWords ==
    {
      <<>>,   \* ''
      <<"B", "a", "n", "k">>,   \* 'Bank'
      <<"B", "A", "N", "K">>,   \* 'BANK'
      <<"b", "A", "n", "K">>,   \* 'bAnK'
      <<"m", "a", "c", "h", "i", "n", "e">>,   \* 'machine'
      <<"t", "r", "a", "c", "e">>,   \* 'trace'
      <<"m", "a", "c", "h">>,   \* 'mach'
      <<"m", "a", "c", "h", "*">>,   \* 'mach*'
      <<"z", "z", "z", "z", "n", "o", "t", "a", "t", "e", "r", "m">>,   \* 'zzzznotaterm'
      <<"z", "z", "z", "-", "n", "o", "t">>,   \* 'zzz-not'
      <<"b", "a", "n", "k", " ", "O", "R", " ", "c", "o", "m", "p", "i", "l", "e", "r">>,   \* 'bank OR compiler'
      <<"b", "a", "n", "k", " ", "A", "N", "D", " ", "t", "y", "p", "e">>,   \* 'bank AND type'
      <<"t", "y", "p", "e", " ", "N", "O", "T", " ", "b", "a", "n", "k">>,   \* 'type NOT bank'
      <<"b", "a", "n", "k", " ", "O", "R">>,   \* 'bank OR'
      <<" ">>,   \* ' '
      <<"*", "b", "a", "n", "k">>,   \* '*bank'
      <<"*", "i", "d">>,   \* '*id'
      <<"*", " ", "R", "e", "a", "d", "s", " ", "x">>,   \* '* Reads x'
      <<"V", "i", "r", "t", "u", "a", "l", " ", " ", "M", "a", "c", "h", "i", "n", "e">>   \* 'Virtual  Machine'
    }

Words == TermWords \cup OtherWords

\* The words the concurrent callers of Spec search for.
ConcurrentWords ==
    {
      <<"b", "a", "n", "k">>,   \* 'bank'
      <<"t", "r", "a", "c", "e", "-", "b", "a", "s", "e", "d">>,   \* 'trace-based'
      <<>>,   \* ''
      <<"m", "a", "c", "h", "i", "n", "e">>   \* 'machine'
    }

(***************************************************************************)
(* The FTS5 query language, as far as words over QueryAlphabet reach it.   *)
(* Lexer (fts5ExprGetToken): whitespace is skipped, "-" is MINUS, "*" is    *)
(* STAR, a run of bareword characters is a STRING, except that exactly     *)
(* AND, OR and NOT (upper case) are the operators.                         *)
(***************************************************************************)
BarewordEnd(s, i) ==
    CHOOSE j \in i .. Len(s) + 1 :
        /\ \A k \in i .. j - 1 : IsBareword(s[k])
        /\ (j = Len(s) + 1 \/ ~IsBareword(s[j]))

Keyword(s) ==
    IF s = <<"A", "N", "D">> THEN "AND"
    ELSE IF s = <<"O", "R">> THEN "OR"
    ELSE IF s = <<"N", "O", "T">> THEN "NOT"
    ELSE "STRING"

RECURSIVE LexFrom(_, _)
LexFrom(s, i) ==
    IF i > Len(s) THEN <<>>
    ELSE IF IsWhitespace(s[i]) THEN LexFrom(s, i + 1)
    ELSE IF s[i] = "-" THEN <<[k |-> "MINUS", s |-> <<>>]>> \o LexFrom(s, i + 1)
    ELSE IF s[i] = "*" THEN <<[k |-> "STAR", s |-> <<>>]>> \o LexFrom(s, i + 1)
    ELSE LET j == BarewordEnd(s, i)
             b == SubSeq(s, i, j - 1)
         IN  <<[k |-> Keyword(b), s |-> b]>> \o LexFrom(s, j)

Lex(s) == LexFrom(s, 1)

\* The columns of the table (CREATE VIRTUAL TABLE dictionary USING fts5(word, definition)).
ColumnNames == {<<"w", "o", "r", "d">>, <<"d", "e", "f", "i", "n", "i", "t", "i", "o", "n">>}

SyntaxError == "fts5: syntax error"

NoSuchColumn == "no such column"

SpecialQuery == "unknown special query"

(***************************************************************************)
(* Parser (fts5parse.y) over these lexemes.  st is what the parser has     *)
(* just consumed: "start" (nothing, or an operator: an operand must         *)
(* follow), "phrase" (a STRING), "star" (a STRING and its STAR), "minus"    *)
(* (a MINUS: a column name must follow), "colset" (MINUS and a column      *)
(* name: a COLON must follow, and no word of the alphabet has one).  The    *)
(* result is "ok" or the error the parse stops with.                       *)
(***************************************************************************)
\* Variant: a grammar that accepts the empty expression.
ParseAtEndAccepts(st) == IF st \in {"start", "phrase", "star"} THEN "ok" ELSE SyntaxError

\* What the parser does with an empty input or an input that ends where an
\* operand must follow: the grammar has no empty expression.
ParseAtEnd(st) == IF st \in {"phrase", "star"} THEN "ok" ELSE SyntaxError

RECURSIVE ParseFrom(_, _, _)
ParseFrom(L, i, st) ==
    IF i > Len(L) THEN ParseAtEnd(st)
    ELSE LET k == L[i].k IN
         IF st = "colset" THEN SyntaxError
         ELSE IF st = "minus" THEN
             IF k # "STRING" THEN SyntaxError
             ELSE IF Fold(L[i].s) \in ColumnNames THEN ParseFrom(L, i + 1, "colset")
             ELSE NoSuchColumn
         ELSE IF k = "STRING" THEN ParseFrom(L, i + 1, "phrase")
         ELSE IF k = "MINUS" THEN ParseFrom(L, i + 1, "minus")
         ELSE IF st = "start" THEN SyntaxError
         ELSE IF k = "STAR" THEN
             IF st = "phrase" THEN ParseFrom(L, i + 1, "star") ELSE SyntaxError
         ELSE ParseFrom(L, i + 1, "start")

Parse(L) == ParseFrom(L, 1, "start")

(***************************************************************************)
(* Evaluation of a parsed expression against the tokens of one row's word  *)
(* column.  Precedence, loosest first: OR, AND, NOT (all left              *)
(* associative), then the implicit AND of adjacent phrases.                *)
(***************************************************************************)
\* The index of the first lexeme of kind k in L, or 0.
FirstOf(L, k) ==
    IF \E i \in 1 .. Len(L) : L[i].k = k
    THEN CHOOSE i \in 1 .. Len(L) : L[i].k = k /\ \A j \in 1 .. i - 1 : L[j].k # k
    ELSE 0

\* L cut at its lexemes of kind k.
RECURSIVE SplitAt(_, _)
SplitAt(L, k) ==
    LET i == FirstOf(L, k)
    IN  IF i = 0 THEN <<L>>
        ELSE <<SubSeq(L, 1, i - 1)>> \o SplitAt(SubSeq(L, i + 1, Len(L)), k)

IsPrefixOf(p, s) == Len(p) <= Len(s) /\ SubSeq(s, 1, Len(p)) = p

\* The phrase at L[i] (a STRING, with a STAR after it or not) against the tokens.
PhraseMatches(L, i, toks) ==
    LET t == Fold(L[i].s)
    IN  IF i < Len(L) /\ L[i + 1].k = "STAR"
        THEN \E n \in 1 .. Len(toks) : IsPrefixOf(t, toks[n])
        ELSE \E n \in 1 .. Len(toks) : toks[n] = t

\* exprlist: every phrase matches.
ListMatches(L, toks) ==
    \A i \in 1 .. Len(L) : L[i].k = "STRING" => PhraseMatches(L, i, toks)

\* a NOT b NOT c is (a NOT b) NOT c.
NotMatches(L, toks) ==
    LET parts == SplitAt(L, "NOT")
    IN  /\ ListMatches(parts[1], toks)
        /\ \A n \in 2 .. Len(parts) : ~ListMatches(parts[n], toks)

AndMatches(L, toks) ==
    LET parts == SplitAt(L, "AND")
    IN  \A n \in 1 .. Len(parts) : NotMatches(parts[n], toks)

ExprMatches(L, toks) ==
    LET parts == SplitAt(L, "OR")
    IN  \E n \in 1 .. Len(parts) : AndMatches(parts[n], toks)

Ok(rows) == [ok |-> TRUE, rows |-> rows, err |-> ""]

Err(e) == [ok |-> FALSE, rows |-> <<>>, err |-> e]

(***************************************************************************)
(* SELECT definition FROM dictionary WHERE word MATCH q, on the rows of     *)
(* table: the definitions of the matching rows in rowid (insertion) order, *)
(* or the error of the query.  A row is a cell: a text or NULL.  A query   *)
(* text that starts with "*" is an FTS5 special query (fts5SpecialMatch):  *)
(* its name is what follows the "*" and any spaces, up to the next space.  *)
(* The names id and reads, in any letter case, are known: the statement    *)
(* then yields one row whose columns are NULL.  Any other name is an       *)
(* error.                                                                  *)
(***************************************************************************)
TextCell(d) == [null |-> FALSE, text |-> d]

NullCell == [null |-> TRUE, text |-> ""]

SpecialName(q) ==
    LET i == CHOOSE a \in 2 .. Len(q) + 1 :
                 /\ \A k \in 2 .. a - 1 : q[k] = " "
                 /\ (a = Len(q) + 1 \/ q[a] # " ")
        j == CHOOSE b \in i .. Len(q) + 1 :
                 /\ \A k \in i .. b - 1 : q[k] # " "
                 /\ (b = Len(q) + 1 \/ q[b] = " ")
    IN  SubSeq(q, i, j - 1)

SpecialNames == {<<"i", "d">>, <<"r", "e", "a", "d", "s">>}

MatchWord(table, q) ==
    IF Len(q) > 0 /\ q[1] = "*"
    THEN IF Fold(SpecialName(q)) \in SpecialNames THEN Ok(<<NullCell>>) ELSE Err(SpecialQuery)
    ELSE LET L == Lex(q)
             p == Parse(L)
         IN  IF p # "ok" THEN Err(p)
             ELSE LET hit == SelectSeq(table, LAMBDA r : ExprMatches(L, Tokenize(r.word)))
                  IN  Ok([n \in 1 .. Len(hit) |-> TextCell(hit[n].definition)])

(***************************************************************************)
(* The program.  setupPc is the position of run's setup hook: "start",     *)
(* "building" (inside init_db, after the table is created), "managed"      *)
(* (DbState registered) or "panicked" (init_db returned Err and expect     *)
(* panicked).  conn is the table of the connection, failedAt the index of  *)
(* the entry whose INSERT failed (0: none), managed whether DbState is     *)
(* registered, holders the threads that hold the mutex of DbState.  For    *)
(* each caller: pc is its position in search_dictionary, word its          *)
(* argument, result what it returned, seen the table as it was when its    *)
(* rows were read (<<table>>, or <<>> when no row has been read).          *)
(***************************************************************************)
NoResult == [ok |-> FALSE, rows |-> <<>>, err |-> "pending"]

PrepareError == "sqlite error in prepare"

QueryError == "sqlite error in query_map"

\* A failure of sqlite3_step that is not FTS5's reading of the word (out of memory).
RowError == "sqlite error in the row loop"

NullColumn == "Invalid column type Null"

\* seen[t]: no table read yet.
NotRead == <<>>

Init ==
    /\ setupPc = "start"
    /\ conn = <<>>
    /\ failedAt = 0
    /\ managed = FALSE
    /\ holders = {}
    /\ pc = [t \in Threads |-> "idle"]
    /\ word = [t \in Threads |-> <<>>]
    /\ result = [t \in Threads |-> NoResult]
    /\ seen = [t \in Threads |-> NotRead]

\* init_db: Connection::open_in_memory and CREATE VIRTUAL TABLE succeed.
OpenDb ==
    /\ setupPc = "start"
    /\ setupPc' = "building"
    /\ conn' = <<>>
    /\ UNCHANGED <<failedAt, managed, holders, pc, word, result, seen>>

\* init_db: one of them fails; "?" returns the error and run's expect panics.
OpenFail ==
    /\ setupPc = "start"
    /\ setupPc' = "panicked"
    /\ UNCHANGED <<conn, failedAt, managed, holders, pc, word, result, seen>>

\* Variant: the connection is handed over after the first INSERT.
BuildCompleteEarly(c) == Len(c) >= 1

\* The loop of init_db has run over every entry.
BuildComplete(c) == Len(c) = NumEntries

\* init_db: the INSERT of the next entry succeeds.
InsertEntry ==
    /\ setupPc = "building"
    /\ ~BuildComplete(conn)
    /\ conn' = Append(conn, entries[Len(conn) + 1])
    /\ UNCHANGED <<setupPc, failedAt, managed, holders, pc, word, result, seen>>

\* What init_db does when an INSERT fails: "?" returns the error at once, the
\* connection is dropped with what it held, and run's expect panics.
OnInsertError == "panicked"

\* init_db: the INSERT of the next entry fails.
InsertFail ==
    /\ setupPc = "building"
    /\ ~BuildComplete(conn)
    /\ failedAt' = Len(conn) + 1
    /\ setupPc' = OnInsertError
    /\ conn' = <<>>
    /\ UNCHANGED <<managed, holders, pc, word, result, seen>>

\* run: init_db returned Ok(conn); app.manage(DbState(Mutex::new(conn))).
Manage ==
    /\ setupPc = "building"
    /\ BuildComplete(conn)
    /\ setupPc' = "managed"
    /\ managed' = TRUE
    /\ UNCHANGED <<conn, failedAt, holders, pc, word, result, seen>>

\* The front end invokes search_dictionary(w); the command gets the managed DbState.
Call(t, w) ==
    /\ managed
    /\ pc[t] \in {"idle", "done"}
    /\ pc' = [pc EXCEPT ![t] = "lock"]
    /\ word' = [word EXCEPT ![t] = w]
    /\ result' = [result EXCEPT ![t] = NoResult]
    /\ seen' = [seen EXCEPT ![t] = NotRead]
    /\ UNCHANGED <<setupPc, conn, failedAt, managed, holders>>

\* Variant: a lock that admits a caller while another holds it.
MutexAlwaysFree(h) == TRUE

\* std::sync::Mutex: lock() returns only when no thread holds the mutex.
MutexFree(h) == h = {}

\* state.0.lock().unwrap()
Lock(t) ==
    /\ pc[t] = "lock"
    /\ MutexFree(holders)
    /\ holders' = holders \cup {t}
    /\ pc' = [pc EXCEPT ![t] = "prepare"]
    /\ UNCHANGED <<setupPc, conn, failedAt, managed, word, result, seen>>

\* Variant: the guard is leaked (std::mem::forget), the mutex stays held.
KeepGuard(h, t) == h

\* The MutexGuard conn is dropped when search_dictionary returns, on every path.
DropGuard(h, t) == h \ {t}

\* search_dictionary returns r.
Return(t, r) ==
    /\ pc' = [pc EXCEPT ![t] = "done"]
    /\ result' = [result EXCEPT ![t] = r]
    /\ holders' = DropGuard(holders, t)

\* conn.prepare(...) succeeds.
Prepare(t) ==
    /\ pc[t] = "prepare"
    /\ pc' = [pc EXCEPT ![t] = "query"]
    /\ UNCHANGED <<setupPc, conn, failedAt, managed, holders, word, result, seen>>

\* conn.prepare(...) fails: map_err and "?" return the error text.
PrepareFail(t) ==
    /\ pc[t] = "prepare"
    /\ Return(t, Err(PrepareError))
    /\ UNCHANGED <<setupPc, conn, failedAt, managed, word, seen>>

\* stmt.query_map(params![word], ...) binds the word and succeeds.
QueryMap(t) ==
    /\ pc[t] = "query"
    /\ pc' = [pc EXCEPT ![t] = "rows"]
    /\ UNCHANGED <<setupPc, conn, failedAt, managed, holders, word, result, seen>>

\* stmt.query_map(...) fails.
QueryMapFail(t) ==
    /\ pc[t] = "query"
    /\ Return(t, Err(QueryError))
    /\ UNCHANGED <<setupPc, conn, failedAt, managed, word, seen>>

\* Variant: only the first row is taken (query_row in place of query_map).
CollectFirstRow(r) ==
    IF ~r.ok THEN Err(r.err)
    ELSE IF r.rows # <<>> /\ r.rows[1].null THEN Err(NullColumn)
    ELSE Ok([n \in 1 .. (IF Len(r.rows) > 0 THEN 1 ELSE 0) |-> r.rows[n].text])

\* for row in rows { results.push(row?) }: every row, in the order the
\* statement yields them, or the first error: that of the statement, or that of
\* row.get(0), which cannot read a NULL as a String.
CollectRows(r) ==
    IF ~r.ok THEN Err(r.err)
    ELSE IF \E n \in 1 .. Len(r.rows) : r.rows[n].null THEN Err(NullColumn)
    ELSE Ok([n \in 1 .. Len(r.rows) |-> r.rows[n].text])

\* The loop over rows: the statement is stepped, FTS5 reads the word as a query;
\* its rows are pushed in order, and its error, if any, is returned by "?".
Collect(t) ==
    /\ pc[t] = "rows"
    /\ Return(t, CollectRows(MatchWord(conn, word[t])))
    /\ seen' = [seen EXCEPT ![t] = <<conn>>]
    /\ UNCHANGED <<setupPc, conn, failedAt, managed, word>>

\* The loop over rows: sqlite3_step fails for want of a resource; "?" returns
\* the error text.
CollectFail(t) ==
    /\ pc[t] = "rows"
    /\ Return(t, Err(RowError))
    /\ UNCHANGED <<setupPc, conn, failedAt, managed, word, seen>>

Setup == OpenDb \/ OpenFail \/ InsertEntry \/ InsertFail \/ Manage

Search(t) == Lock(t) \/ Prepare(t) \/ PrepareFail(t) \/ QueryMap(t) \/ QueryMapFail(t) \/ Collect(t) \/ CollectFail(t)

\* NumThreads concurrent callers, searching for the words of ConcurrentWords.
Next ==
    \/ Setup
    \/ \E t \in Threads : \E w \in ConcurrentWords : Call(t, w)
    \/ \E t \in Threads : Search(t)

Spec == Init /\ [][Next]_vars

\* The mutex is granted fairly and a running call is scheduled.  Collect(t) and
\* CollectFail(t) are enabled exactly when pc[t] = "rows" and every such step
\* ends that, so the last conjunct is WF_vars(Collect(t) \/ CollectFail(t))
\* written out.
FairSpec ==
    /\ Spec
    /\ \A t \in Threads : SF_vars(Lock(t))
    /\ \A t \in Threads : WF_vars(Prepare(t) \/ PrepareFail(t))
    /\ \A t \in Threads : WF_vars(QueryMap(t) \/ QueryMapFail(t))
    /\ \A t \in Threads : []<>(pc[t] # "rows")

\* One caller at a time (thread 1), searching for every word of Words.
SearchNext ==
    \/ Setup
    \/ \E w \in Words : Call(1, w)
    \/ Search(1)

SearchSpec == Init /\ [][SearchNext]_vars

(***************************************************************************)
(* Vocabulary of the properties.                                           *)
(***************************************************************************)
LowerChar(c) == IF IsUpper(c) THEN Lower[CHOOSE i \in 1 .. Len(Upper) : Upper[i] = c] ELSE c

LowerCase(s) == [i \in 1 .. Len(s) |-> LowerChar(s[i])]

RECURSIVE CollapseFrom(_, _, _)
CollapseFrom(s, i, acc) ==
    IF i > Len(s) THEN acc
    ELSE IF IsWhitespace(s[i])
         THEN CollapseFrom(s, i + 1,
                  IF acc = <<>> \/ acc[Len(acc)] = " " THEN acc ELSE Append(acc, " "))
         ELSE CollapseFrom(s, i + 1, Append(acc, s[i]))

\* normalize of the specification: lowercase, trim, collapse internal whitespace.
Normalize(s) ==
    LET c == CollapseFrom(LowerCase(s), 1, <<>>)
    IN  IF c # <<>> /\ c[Len(c)] = " " THEN SubSeq(c, 1, Len(c) - 1) ELSE c

\* The call of t has returned what FTS5 answered to its word: no failure of
\* prepare, of query_map or of a step of the row loop for want of a resource.
Answered(t) ==
    /\ pc[t] = "done"
    /\ seen[t] # NotRead
    /\ result[t].err \notin {PrepareError, QueryError, RowError}

Contains(rows, d) == \E n \in 1 .. Len(rows) : rows[n] = d

\* The definitions of the entries of the table whose term is w up to letter case.
SameTerm(w) ==
    LET same == SelectSeq(conn, LAMBDA r : LowerCase(r.word) = LowerCase(w))
    IN  [n \in 1 .. Len(same) |-> same[n].definition]

\* No token of w is a token, or the start of a token, of any term of the table.
Absent(w) ==
    /\ Tokenize(w) # <<>>
    /\ \A i \in 1 .. Len(conn) :
           LET toks == Tokenize(conn[i].word)
               q == Tokenize(w)
           IN  \A a \in 1 .. Len(q) : \A b \in 1 .. Len(toks) : ~IsPrefixOf(q[a], toks[b])

ActiveSearches == {t \in Threads : pc[t] \in {"prepare", "query", "rows"}}

(***************************************************************************)
(* C1: every entry loaded by init_db is found by a search for its          *)
(* normalized term: the search succeeds and its result contains the        *)
(* entry's definition.  Fails for the terms with a hyphen.                 *)
(***************************************************************************)
C1_EveryEntryIsFound ==
    \A t \in Threads :
        Answered(t) =>
            \A i \in 1 .. Len(conn) :
                word[t] = Normalize(conn[i].word) =>
                    result[t].ok /\ Contains(result[t].rows, conn[i].definition)

(***************************************************************************)
(* C2: a search for a term that several entries share up to letter case,   *)
(* in any letter case, returns exactly their definitions in insertion      *)
(* order.                                                                  *)
(***************************************************************************)
C2_HomonymsInInsertionOrder ==
    \A t \in Threads :
        (Answered(t) /\ Len(SameTerm(word[t])) >= 2) =>
            result[t].ok /\ result[t].rows = SameTerm(word[t])

C2_Witness ==
    \E t \in Threads :
        /\ Answered(t)
        /\ word[t] = <<"b", "A", "n", "K">>
        /\ result[t].rows = <<entries[1].definition, entries[2].definition>>

(***************************************************************************)
(* C3: a search returns the definition of an entry only if the normalized  *)
(* query equals the entry's normalized term.  Fails: FTS5 matches a query  *)
(* token against any token of the term.                                    *)
(***************************************************************************)
C3_ExactTermMatchOnly ==
    \A t \in Threads :
        (Answered(t) /\ result[t].ok) =>
            \A i \in 1 .. Len(conn) :
                Contains(result[t].rows, conn[i].definition) =>
                    Normalize(conn[i].word) = Normalize(word[t])

(***************************************************************************)
(* C4: a search for a non-empty term that is absent from the dictionary    *)
(* succeeds with an empty sequence, never an error.  Fails for absent      *)
(* terms that FTS5 reads as query syntax.                                  *)
(***************************************************************************)
C4_AbsentTermIsEmptySuccess ==
    \A t \in Threads :
        (Answered(t) /\ Absent(word[t])) =>
            result[t].ok /\ result[t].rows = <<>>

(***************************************************************************)
(* C5: searches run concurrently without blocking one another.  A search   *)
(* that starts while another search is in progress is not made to wait     *)
(* for it.  Fails: DbState is one mutex, and lock() admits one caller.     *)
(***************************************************************************)
C5_SearchNeverWaits ==
    \A t \in Threads : pc[t] = "lock" => ENABLED Lock(t)

(***************************************************************************)
(* C6: no search observes a partially built table.  Every search reads     *)
(* either the empty table or the table with all entries of init_db.        *)
(***************************************************************************)
C6_NoPartialBuildObserved ==
    /\ \A t \in Threads : seen[t] # NotRead => Len(seen[t][1]) \in {0, NumEntries}
    /\ ActiveSearches # {} => Len(conn) \in {0, NumEntries}

C6_Witness ==
    \E t \in Threads : Answered(t) /\ result[t].ok /\ seen[t] = <<entries>>

(***************************************************************************)
(* C7: at most one caller holds the connection at any instant, and the     *)
(* build (the one writer) is never active together with a search.          *)
(***************************************************************************)
C7_MutualExclusion ==
    /\ Cardinality(holders) <= 1
    /\ setupPc \in {"start", "building"} =>
           holders = {} /\ \A t \in Threads : pc[t] = "idle"

C7_Witness ==
    \E t, u \in Threads :
        /\ t # u
        /\ holders = {t}
        /\ pc[u] = "lock"
        /\ setupPc = "managed"

(***************************************************************************)
(* C8: a failure on one entry of the build is not fatal.  The build goes   *)
(* on, and every other entry is in the table when it ends.  Fails:         *)
(* init_db returns at the first failed INSERT.                             *)
(***************************************************************************)
C8_FailedEntryIsSkipped ==
    failedAt # 0 =>
        /\ setupPc # "panicked"
        /\ setupPc = "managed" =>
               \A i \in 1 .. NumEntries :
                   i # failedAt => \E n \in 1 .. Len(conn) : conn[n] = entries[i]

(***************************************************************************)
(* C9: a search for the empty string fails with an error, never with a     *)
(* successful empty sequence, and leaves the table as init_db built it.    *)
(***************************************************************************)
C9_EmptyWordIsRejected ==
    \A t \in Threads :
        (pc[t] = "done" /\ word[t] = <<>>) =>
            /\ ~result[t].ok
            /\ result[t].err # ""
            /\ conn = entries

C9_Witness ==
    \E t \in Threads :
        /\ Answered(t)
        /\ word[t] = <<>>
        /\ result[t] = Err(SyntaxError)

(***************************************************************************)
(* C10: search_dictionary releases the mutex on every return path, so a    *)
(* caller that is not inside the function holds nothing; and with the      *)
(* mutex granted fairly every pending call acquires it and returns.        *)
(***************************************************************************)
C10_MutexReleasedAndSearchReturns ==
    /\ [](\A t \in Threads : pc[t] \in {"idle", "lock", "done"} => t \notin holders)
    /\ \A t \in Threads : (pc[t] = "lock") ~> (pc[t] = "done")

C10_Witness ==
    \E t, u \in Threads :
        /\ t # u
        /\ pc[t] = "done"
        /\ result[t].err \in {PrepareError, QueryError, RowError, SyntaxError, NoSuchColumn}
        /\ u \in holders

====
